---- MODULE Spec2Model ----
(***************************************************************************)
(* transformJsonIds of json-id-transformer: one call of the function,      *)
(* from the synchronous collection of identifiers, through the awaited     *)
(* batchIds call, to the scatter of the mapped identifiers over the        *)
(* working document.                                                        *)
(***************************************************************************)
EXTENDS Integers, Sequences, FiniteSets, TLC

(***************************************************************************)
(* Bounds of the model.                                                     *)
(***************************************************************************)
\* pathTypeMap has at most this many path patterns
MaxPatterns == 2
\* batchIds resolves with arrays of at most this many elements more than asked
MaxExtraResults == 1

(***************************************************************************)
(* JSON values.  A value is a record of its JavaScript type, its string    *)
(* content and its numeric content.                                         *)
(***************************************************************************)
Str(s) == [t |-> "string", s |-> s, n |-> 0, f |-> <<>>]
Num(n) == [t |-> "number", s |-> "", n |-> n, f |-> <<>>]
Null == [t |-> "null", s |-> "", n |-> 0, f |-> <<>>]
Undefined == [t |-> "undefined", s |-> "", n |-> 0, f |-> <<>>]
True == [t |-> "boolean", s |-> "true", n |-> 0, f |-> <<>>]
False == [t |-> "boolean", s |-> "false", n |-> 0, f |-> <<>>]
\* an object: f maps its own property names to their values
Obj(fields) == [t |-> "object", s |-> "", n |-> 0, f |-> fields]

\* property names in the order a wildcard enumerates them (insertion order)
KeyOrder == <<"a", "b", "id", "@id">>

Digits == <<"0", "1", "2", "3", "4", "5", "6", "7", "8", "9">>

RECURSIVE NatToString(_)
NatToString(n) ==
    IF n < 10 THEN Digits[n + 1]
    ELSE NatToString(n \div 10) \o Digits[(n % 10) + 1]

\* a conversion that keeps only the last digit
NumberToStringLastDigit(n) == Digits[(n % 10) + 1]

\* String(idValue) for an integer-valued number
NumberToString(n) == IF n < 0 THEN "-" \o NatToString(0 - n) ELSE NatToString(n)

\* a type guard that lets every value through
isValidIdTypeAny(value) == TRUE

\* a truthiness test in place of the type test
isValidIdTypeTruthy(value) ==
    \/ value.t = "string" /\ value.s # ""
    \/ value.t = "number" /\ value.n # 0

\* typeof value === "string" || typeof value === "number": lines 51-53
isValidIdType(value) == value.t = "string" \/ value.t = "number"

\* typeof idValue === "string" ? idValue : String(idValue)
IdString(idValue) ==
    IF idValue.t = "string" THEN idValue.s ELSE NumberToString(idValue.n)

(***************************************************************************)
(* JSON Pointer (the json-pointer package): strings such as "/a/id".        *)
(***************************************************************************)
RECURSIVE ReplaceAll(_, _, _)
ReplaceAll(s, pat, rep) ==
    IF Len(s) < Len(pat) THEN s
    ELSE IF SubSeq(s, 1, Len(pat)) = pat
         THEN rep \o ReplaceAll(SubSeq(s, Len(pat) + 1, Len(s)), pat, rep)
         ELSE SubSeq(s, 1, 1) \o ReplaceAll(SubSeq(s, 2, Len(s)), pat, rep)

escape(s) == ReplaceAll(ReplaceAll(s, "~", "~0"), "/", "~1")
unescape(s) == ReplaceAll(ReplaceAll(s, "~1", "/"), "~0", "~")

\* s.split("/")
RECURSIVE Split(_, _)
Split(s, cur) ==
    IF Len(s) = 0 THEN <<cur>>
    ELSE IF SubSeq(s, 1, 1) = "/"
         THEN <<cur>> \o Split(SubSeq(s, 2, Len(s)), "")
         ELSE Split(SubSeq(s, 2, Len(s)), cur \o SubSeq(s, 1, 1))

PointerIsValid(pointer) == pointer = "" \/ SubSeq(pointer, 1, 1) = "/"

\* jsonPointer.parse, for a pointer that is valid
parse(pointer) ==
    IF pointer = "" THEN <<>>
    ELSE LET raw == Split(SubSeq(pointer, 2, Len(pointer)), "")
         IN  [i \in 1..Len(raw) |-> unescape(raw[i])]

RECURSIVE Join(_)
Join(tokens) ==
    IF Len(tokens) = 0 THEN ""
    ELSE "/" \o escape(Head(tokens)) \o Join(Tail(tokens))

\* jsonPointer.compile
compile(tokens) == Join(tokens)

(***************************************************************************)
(* jsonPointer.get and jsonPointer.set on a document tree.                  *)
(***************************************************************************)
RECURSIVE GetTokens(_, _)
GetTokens(node, tokens) ==
    IF tokens = <<>> THEN [ok |-> TRUE, v |-> node]
    ELSE IF node.t = "object" /\ Head(tokens) \in DOMAIN node.f
         THEN GetTokens(node.f[Head(tokens)], Tail(tokens))
         ELSE [ok |-> FALSE, v |-> Undefined]

\* jsonPointer.get(obj, pointer); ok is FALSE when it throws
get(obj, pointer) ==
    IF PointerIsValid(pointer) THEN GetTokens(obj, parse(pointer))
    ELSE [ok |-> FALSE, v |-> Undefined]

RECURSIVE SetTokens(_, _, _)
SetTokens(node, tokens, value) ==
    IF node.t # "object" THEN [ok |-> FALSE, v |-> node]
    ELSE IF Len(tokens) = 1
         THEN [ok |-> TRUE,
               v |-> [node EXCEPT !.f = (Head(tokens) :> value) @@ node.f]]
         ELSE LET tok == Head(tokens)
                  child == IF tok \in DOMAIN node.f THEN node.f[tok] ELSE Obj(<<>>)
                  sub == SetTokens(child, Tail(tokens), value)
              IN  IF sub.ok
                  THEN [ok |-> TRUE,
                        v |-> [node EXCEPT !.f = (tok :> sub.v) @@ node.f]]
                  ELSE [ok |-> FALSE, v |-> node]

\* jsonPointer.set(obj, pointer, value); ok is FALSE when it throws
set(obj, pointer, value) ==
    IF PointerIsValid(pointer) /\ pointer # ""
    THEN SetTokens(obj, parse(pointer), value)
    ELSE [ok |-> FALSE, v |-> obj]

(***************************************************************************)
(* JSONPath (the jsonpath-plus package) with resultType "pointer".          *)
(***************************************************************************)
\* a thrown value: whether it is an Error, and what it says; NoThrow is
\* the absence of one
NoThrow == [isError |-> FALSE, what |-> ""]

\* the path patterns of the model and their segments; "*" is the wildcard
PathSegments(path) ==
    CASE path = "$.a.id" -> <<"a", "id">>
      [] path = "$.*.id" -> <<"*", "id">>
      [] path = "$.a['@id']" -> <<"a", "@id">>
      [] path = "$.a" -> <<"a">>
      [] path = "$.b.id" -> <<"b", "id">>
      [] OTHER -> <<>>

\* a path the evaluator cannot parse
PathIsMalformed(path) == path = "$.a["

RECURSIVE Trace(_, _, _)
Trace(node, segs, at) ==
    IF segs = <<>> THEN <<at>>
    ELSE IF node.t # "object" THEN <<>>
    ELSE IF Head(segs) = "*"
         THEN LET RECURSIVE Each(_)
                  Each(i) ==
                      IF i > Len(KeyOrder) THEN <<>>
                      ELSE (IF KeyOrder[i] \in DOMAIN node.f
                            THEN Trace(node.f[KeyOrder[i]], Tail(segs),
                                       Append(at, KeyOrder[i]))
                            ELSE <<>>) \o Each(i + 1)
              IN  Each(1)
         ELSE IF Head(segs) \in DOMAIN node.f
              THEN Trace(node.f[Head(segs)], Tail(segs), Append(at, Head(segs)))
              ELSE <<>>

\* JSONPath({path, json, flatten: true, wrap: false, resultType: "pointer"}),
\* normalised to the list of pointers as the caller does; ok is FALSE when
\* the evaluator throws, and thrown is then the Error it throws
JSONPath(path, json) ==
    IF PathIsMalformed(path)
    THEN [ok |-> FALSE, pointers |-> <<>>,
          thrown |-> [isError |-> TRUE, what |-> "Error: jsonPath: syntax error"]]
    ELSE LET found == Trace(json, PathSegments(path), <<>>)
         IN  [ok |-> TRUE,
              pointers |-> [i \in 1..Len(found) |-> compile(found[i])],
              thrown |-> NoThrow]

(***************************************************************************)
(* Errors.  cause is "undefined" when the caught value is no Error.         *)
(* TypeError is the runtime's own error, not a TransformationError.         *)
(***************************************************************************)
NoError ==
    [name |-> "none", path |-> "", idValue |-> "", expected |-> 0,
     received |-> 0, pointer |-> "", cause |-> "undefined"]

\* an error that forgets the path
InvalidJSONPathErrorNoPath(path, cause) ==
    [NoError EXCEPT !.name = "InvalidJSONPathError", !.cause = cause]

InvalidJSONPathError(path, cause) ==
    [NoError EXCEPT !.name = "InvalidJSONPathError", !.path = path, !.cause = cause]

\* an error that forgets the cause
PathTypeMapFnErrorNoCause(path, idValue, cause) ==
    [NoError EXCEPT !.name = "PathTypeMapFnError", !.path = path,
                    !.idValue = idValue]

PathTypeMapFnError(path, idValue, cause) ==
    [NoError EXCEPT !.name = "PathTypeMapFnError", !.path = path,
                    !.idValue = idValue, !.cause = cause]

BatchIdsError(cause) ==
    [NoError EXCEPT !.name = "BatchIdsError", !.cause = cause]

BatchIdsMismatchError(expected, received) ==
    [NoError EXCEPT !.name = "BatchIdsMismatchError", !.expected = expected,
                    !.received = received]

InvalidJSONPointerError(pointer, cause) ==
    [NoError EXCEPT !.name = "InvalidJSONPointerError", !.pointer = pointer,
                    !.cause = cause]

\* reading .length of undefined: line 332
TypeError == [NoError EXCEPT !.name = "TypeError"]

\* a catch block that passes no cause on
CauseOfNever(thrown) == "undefined"

\* error instanceof Error ? error : undefined, for a thrown value
CauseOf(thrown) == IF thrown.isError THEN thrown.what ELSE "undefined"

(***************************************************************************)
(* The type functions of the model (PathTypeMapFn).                         *)
(***************************************************************************)
\* typeof pathTypeMapValue === "function"
IsFunction(rule) == rule = "fn"

\* the type function: it throws an Error for the identifier "2" and a
\* string for the identifier "0", answers "User:9" (a typename with a colon
\* in it) for an object that carries an "@id" property and "Post" otherwise
PathTypeMapFn(value, parentObj, path) ==
    IF value = "2"
    THEN [ok |-> FALSE, typename |-> "",
          thrown |-> [isError |-> TRUE, what |-> "Error: unknown id"]]
    ELSE IF value = "0"
    THEN [ok |-> FALSE, typename |-> "",
          thrown |-> [isError |-> FALSE, what |-> "no zero ids"]]
    ELSE [ok |-> TRUE,
          typename |-> IF parentObj.t = "object" /\ "@id" \in DOMAIN parentObj.f
                       THEN "User:9" ELSE "Post",
          thrown |-> NoThrow]

(***************************************************************************)
(* The collection phase: lines 209-308.                                     *)
(***************************************************************************)
\* idsBatchMap.has(dedupeKey): the position of the key, 0 when it is absent
RECURSIVE MapIndex(_, _, _)
MapIndex(map, key, i) ==
    IF i > Len(map) THEN 0
    ELSE IF map[i].key = key THEN i ELSE MapIndex(map, key, i + 1)

\* getParentObject(idPtr), with the call's parentCache
getParentObject(fullJson, parentCache, idPtr) ==
    LET idPtrArray == parse(idPtr)
    IN  IF Len(idPtrArray) = 0
        THEN [err |-> InvalidJSONPointerError(idPtr, "undefined"),
              obj |-> Undefined, cache |-> parentCache]
        ELSE LET parentPtr == compile(SubSeq(idPtrArray, 1, Len(idPtrArray) - 1))
             IN  IF parentPtr \in DOMAIN parentCache
                 THEN [err |-> NoError, obj |-> parentCache[parentPtr],
                       cache |-> parentCache]
                 ELSE LET got == get(fullJson, parentPtr)
                      IN  IF got.ok
                          THEN [err |-> NoError, obj |-> got.v,
                                cache |-> (parentPtr :> got.v) @@ parentCache]
                          ELSE [err |-> InvalidJSONPointerError(parentPtr,
                                            "Error: Invalid reference token"),
                                obj |-> Undefined, cache |-> parentCache]

\* a collection that never looks the key up
DedupeAlwaysAppends(map, typename, idString, idValue, idPtr) ==
    Append(map, [key |-> typename \o ":" \o idString, id |-> idString,
                 originalId |-> idValue, typename |-> typename,
                 pointers |-> <<idPtr>>])

\* a collection that puts a new entry before the ones it has
DedupePrepends(map, typename, idString, idValue, idPtr) ==
    LET dedupeKey == typename \o ":" \o idString
        at == MapIndex(map, dedupeKey, 1)
    IN  IF at # 0
        THEN [map EXCEPT ![at].pointers = Append(@, idPtr)]
        ELSE <<[key |-> dedupeKey, id |-> idString, originalId |-> idValue,
                typename |-> typename, pointers |-> <<idPtr>>]>> \o map

\* the deduplication of one occurrence: lines 291-306
Dedupe(map, typename, idString, idValue, idPtr) ==
    LET dedupeKey == typename \o ":" \o idString
        at == MapIndex(map, dedupeKey, 1)
    IN  IF at # 0
        THEN [map EXCEPT ![at].pointers = Append(@, idPtr)]
        ELSE Append(map, [key |-> dedupeKey, id |-> idString,
                          originalId |-> idValue, typename |-> typename,
                          pointers |-> <<idPtr>>])

\* the body of the loop over the pointers of one path: lines 239-307
CollectPointer(st, fullJson, jsonPath, rule, idPtr) ==
    LET got == get(fullJson, idPtr)
    IN  IF ~got.ok
        THEN [st EXCEPT !.err = InvalidJSONPointerError(idPtr,
                                    "Error: Invalid reference token")]
        ELSE LET idValue == got.v
             IN  IF idValue.t = "null" \/ idValue.t = "undefined" THEN st
                 ELSE IF ~isValidIdType(idValue) THEN st
                 ELSE LET idString == IdString(idValue)
                          parent == getParentObject(fullJson, st.cache, idPtr)
                      IN  IF parent.err.name # "none"
                          THEN [st EXCEPT !.err = parent.err]
                          ELSE IF IsFunction(rule)
                          THEN LET r == PathTypeMapFn(idString, parent.obj, jsonPath)
                               IN  IF r.ok
                                   THEN [st EXCEPT
                                           !.cache = parent.cache,
                                           !.map = Dedupe(@, r.typename, idString,
                                                          idValue, idPtr)]
                                   ELSE [st EXCEPT
                                           !.cache = parent.cache,
                                           !.thrown = r.thrown,
                                           !.err = PathTypeMapFnError(jsonPath,
                                                      idString, CauseOf(r.thrown))]
                          ELSE [st EXCEPT
                                  !.cache = parent.cache,
                                  !.map = Dedupe(@, rule, idString, idValue, idPtr)]

RECURSIVE CollectPointers(_, _, _, _, _, _)
CollectPointers(st, fullJson, jsonPath, rule, pointers, i) ==
    IF st.err.name # "none" \/ i > Len(pointers) THEN st
    ELSE CollectPointers(CollectPointer(st, fullJson, jsonPath, rule, pointers[i]),
                         fullJson, jsonPath, rule, pointers, i + 1)

\* a collection that stops after the first pattern
CollectPathsFirstOnly(st, fullJson, pathTypeMap, k) ==
    IF Len(pathTypeMap) = 0 THEN st
    ELSE LET jsonPath == pathTypeMap[1].path
             result == JSONPath(jsonPath, fullJson)
             seen == [st EXCEPT !.evaluated = Append(@, jsonPath)]
         IN  IF ~result.ok
             THEN [seen EXCEPT !.thrown = result.thrown,
                               !.err = InvalidJSONPathError(jsonPath,
                                           CauseOf(result.thrown))]
             ELSE CollectPointers(seen, fullJson, jsonPath, pathTypeMap[1].rule,
                                  result.pointers, 1)

\* the loop over the paths of pathTypeMap: lines 210-308
RECURSIVE CollectPaths(_, _, _, _)
CollectPaths(st, fullJson, pathTypeMap, k) ==
    IF st.err.name # "none" \/ k > Len(pathTypeMap) THEN st
    ELSE LET jsonPath == pathTypeMap[k].path
             result == JSONPath(jsonPath, fullJson)
             seen == [st EXCEPT !.evaluated = Append(@, jsonPath)]
         IN  IF ~result.ok
             THEN [seen EXCEPT !.thrown = result.thrown,
                               !.err = InvalidJSONPathError(jsonPath,
                                           CauseOf(result.thrown))]
             ELSE CollectPaths(
                      CollectPointers(seen, fullJson, jsonPath,
                                      pathTypeMap[k].rule, result.pointers, 1),
                      fullJson, pathTypeMap, k + 1)

Collect(fullJson, pathTypeMap) ==
    CollectPaths([map |-> <<>>, cache |-> <<>>, err |-> NoError, evaluated |-> <<>>,
                  thrown |-> NoThrow],
                 fullJson, pathTypeMap, 1)

(***************************************************************************)
(* The scatter phase: lines 337-384.                                        *)
(***************************************************************************)
\* a default that leaves the property name as it is
PrefixOfNoDefault(originalIdPrefix) ==
    IF originalIdPrefix.t = "undefined" \/ originalIdPrefix.t = "null" THEN ""
    ELSE originalIdPrefix.s

\* options.originalIdPrefix ?? "@"
PrefixOf(originalIdPrefix) ==
    IF originalIdPrefix.t = "undefined" \/ originalIdPrefix.t = "null" THEN "@"
    ELSE originalIdPrefix.s

\* the body of the loop over the pointers of one entry: lines 344-382
ScatterPointer(st, i, idPtr, mappedId, originalId, originalIdPrefix) ==
    LET first == set(st.doc, idPtr, mappedId)
    IN  IF ~first.ok
        THEN [st EXCEPT !.err = InvalidJSONPointerError(idPtr,
                                    "Error: Can not set the root object")]
        ELSE LET idPtrArray == parse(idPtr)
                 idPropertyName == IF Len(idPtrArray) = 0 THEN ""
                                   ELSE idPtrArray[Len(idPtrArray)]
                 wrote == [st EXCEPT !.doc = first.v,
                                     !.writes = Append(@, [entry |-> i, kind |-> "id",
                                                           pointer |-> idPtr,
                                                           value |-> mappedId])]
             IN  IF idPropertyName = ""
                 THEN [wrote EXCEPT !.err = InvalidJSONPointerError(idPtr, "undefined")]
                 ELSE LET originalIdPropertyName ==
                              PrefixOf(originalIdPrefix) \o idPropertyName
                          originalIdPtr ==
                              compile(Append(SubSeq(idPtrArray, 1, Len(idPtrArray) - 1),
                                             originalIdPropertyName))
                          second == set(wrote.doc, originalIdPtr, originalId)
                      IN  IF ~second.ok
                          THEN [wrote EXCEPT !.err = InvalidJSONPointerError(
                                    originalIdPtr, "Error: Can not set the root object")]
                          ELSE [wrote EXCEPT
                                  !.doc = second.v,
                                  !.writes = Append(@, [entry |-> i, kind |-> "original",
                                                        pointer |-> originalIdPtr,
                                                        value |-> originalId])]

RECURSIVE ScatterPointers(_, _, _, _, _, _, _)
ScatterPointers(st, i, pointers, j, mappedId, originalId, originalIdPrefix) ==
    IF st.err.name # "none" \/ j > Len(pointers) THEN st
    ELSE ScatterPointers(
             ScatterPointer(st, i, pointers[j], mappedId, originalId, originalIdPrefix),
             i, pointers, j + 1, mappedId, originalId, originalIdPrefix)

\* a read that turns null into the string "null"
MappedIdOfNullAsString(batchedIds, i) ==
    IF batchedIds[i].t = "null" THEN Str("null") ELSE batchedIds[i]

\* const mappedId = batchedIds[i]
MappedIdOf(batchedIds, i) == batchedIds[i]

\* the loop over the entries: lines 337-384
RECURSIVE ScatterEntries(_, _, _, _, _)
ScatterEntries(st, idsToBatch, batchedIds, i, originalIdPrefix) ==
    IF st.err.name # "none" \/ i > Len(idsToBatch) THEN st
    ELSE LET mappedId == MappedIdOf(batchedIds, i)
         IN  IF mappedId.t # "null" /\ mappedId.t # "undefined"
             THEN ScatterEntries(
                      ScatterPointers(st, i, idsToBatch[i].pointers, 1, mappedId,
                                      idsToBatch[i].originalId, originalIdPrefix),
                      idsToBatch, batchedIds, i + 1, originalIdPrefix)
             ELSE ScatterEntries(st, idsToBatch, batchedIds, i + 1, originalIdPrefix)

\* the writes made before the length of the result is validated
ScatterThenMismatch(fullJson, idsToBatch, batchedIds, originalIdPrefix) ==
    [ScatterEntries([doc |-> fullJson, err |-> NoError, writes |-> <<>>],
                    idsToBatch, batchedIds, 1, originalIdPrefix)
        EXCEPT !.err = BatchIdsMismatchError(Len(idsToBatch), Len(batchedIds))]

Scatter(fullJson, idsToBatch, batchedIds, originalIdPrefix) ==
    ScatterEntries([doc |-> fullJson, err |-> NoError, writes |-> <<>>],
                   idsToBatch, batchedIds, 1, originalIdPrefix)

(***************************************************************************)
(* The inputs of the model.                                                 *)
(***************************************************************************)
\* values the "id" property of object a may hold
IdValuesA == {Str("12"), Num(12), Num(0), Str(""), Null, True}
\* values the "id" property of object b may hold
IdValuesB == {Str("12"), Num(12), Str("2")}
\* values the "@id" property of object a may hold, when it has one
SiblingValues == {Str("9:12"), Null}

Documents ==
    { Obj([a |-> Obj(fa), b |-> Obj(fb)]) :
        fa \in { [id |-> v] : v \in IdValuesA }
               \cup { ("id" :> v) @@ ("@id" :> w) : v \in IdValuesA, w \in SiblingValues },
        fb \in { [id |-> v] : v \in IdValuesB } }

Paths == {"$.a.id", "$.*.id", "$.a['@id']"}
Rules == {"User", "Post", "fn"}

PathTypeMapEntries ==
    { [path |-> p, rule |-> r] : p \in Paths, r \in Rules }
    \cup { [path |-> "$.a[", rule |-> "User"], [path |-> "$.a", rule |-> "User"] }

\* the keys of an object are distinct
PathTypeMaps ==
    UNION { { m \in [1..n -> PathTypeMapEntries] :
                \A i, j \in 1..n : i # j => m[i].path # m[j].path } :
            n \in 0..MaxPatterns }

OriginalIdPrefixes == {Undefined, Str(""), Str("__")}
Mutates == {Undefined, False, True}

\* what batchIds may resolve with for n entries
MappedIds == {Null, Undefined, Str("X"), Str("Y")}
ResultArrays(n) ==
    [1..n -> MappedIds]
    \cup { [i \in 1..m |-> Str("X")] : m \in (0..(n + MaxExtraResults)) \ {n} }

\* what batchIds may throw or reject with
Thrown == { [isError |-> TRUE, what |-> "Error: network"],
            [isError |-> FALSE, what |-> "timeout"] }

\* the reference of the caller's input, and of a structuredClone of it
InputRef == 1
CloneRef == 2

Truthy(v) == v = True

\* a call that never clones, and one that always clones
WorkingRefNeverClones(mutate) == InputRef
WorkingRefAlwaysClones(mutate) == CloneRef

\* const fullJson = options.mutate ? input : structuredClone(input):
\* the reference the working document has
WorkingRef(mutate) == IF Truthy(mutate) THEN InputRef ELSE CloneRef

\* a call without the early return
NothingToBatchNever(idsToBatch) == FALSE

\* if (idsToBatch.length === 0) return fullJson
NothingToBatch(idsToBatch) == Len(idsToBatch) = 0

\* a validation that accepts a result longer than the entry list
LengthMismatchShortOnly(batchedIds, idsToBatch) == Len(batchedIds) < Len(idsToBatch)

\* if (batchedIds.length !== idsToBatch.length) throw ...
LengthMismatch(batchedIds, idsToBatch) == Len(batchedIds) # Len(idsToBatch)

(***************************************************************************)
(* The state of one call.                                                   *)
(***************************************************************************)
VARIABLES
    heap,        \* the objects: reference -> document tree
    input0,      \* the input document as it was before the call
    options,     \* pathTypeMap, originalIdPrefix, mutate
    pc,          \* "idle", "awaiting", "resolved", "rejected"
    fullJson,    \* the reference of the working document, 0 before the call
    idsToBatch,  \* Array.from(idsBatchMap.values())
    parentCache, \* the call's parentCache
    evaluated,   \* the paths handed to JSONPath so far
    collected,   \* the size of idsBatchMap when the collection ended or threw
    calls,       \* the entry lists batchIds was invoked with
    settled,     \* how the batchIds promise settled: "no", "rejected", "resolved"
                 \* (with an array), "resolvedUndefined" (with undefined)
    batchedIds,  \* the array batchIds resolved with
    caught,      \* the value a catch block of the call caught, NoThrow when none
    writes,      \* the jsonPointer.set calls that succeeded, in order
    returned,    \* the reference the call resolved with, 0 when none
    error,       \* what the call rejected with
    twoCalls     \* the objects and the two calls of SpecTwo; NoCalls in Spec

vars == <<heap, input0, options, pc, fullJson, idsToBatch, parentCache,
          evaluated, collected, calls, settled, batchedIds, caught, writes, returned,
          error, twoCalls>>

\* the variables of the single call of Spec
oneVars == <<heap, input0, options, pc, fullJson, idsToBatch, parentCache,
             evaluated, collected, calls, settled, batchedIds, caught, writes,
             returned, error>>

\* no second specification running
NoCalls == <<>>

Init ==
    /\ input0 \in Documents
    /\ heap = (InputRef :> input0)
    /\ options \in [pathTypeMap : PathTypeMaps,
                    originalIdPrefix : OriginalIdPrefixes,
                    mutate : Mutates]
    /\ pc = "idle"
    /\ fullJson = 0
    /\ idsToBatch = <<>>
    /\ parentCache = <<>>
    /\ evaluated = <<>>
    /\ collected = 0
    /\ calls = <<>>
    /\ settled = "no"
    /\ batchedIds = <<>>
    /\ caught = NoThrow
    /\ writes = <<>>
    /\ returned = 0
    /\ error = NoError
    /\ twoCalls = NoCalls

\* transformJsonIds up to its await: lines 167-323
Call ==
    /\ pc = "idle"
    /\ LET ref == WorkingRef(options.mutate)
           heap1 == IF ref = InputRef THEN heap
                    ELSE (ref :> heap[InputRef]) @@ heap
       IN  \E st \in {Collect(heap1[ref], options.pathTypeMap)} :
           /\ heap' = heap1
           /\ fullJson' = ref
           /\ parentCache' = st.cache
           /\ evaluated' = st.evaluated
           /\ collected' = Len(st.map)
           /\ caught' = st.thrown
           /\ IF st.err.name # "none"
              THEN /\ pc' = "rejected"
                   /\ error' = st.err
                   /\ UNCHANGED <<idsToBatch, calls, returned>>
              ELSE IF NothingToBatch(st.map)
              THEN /\ pc' = "resolved"
                   /\ returned' = ref
                   /\ UNCHANGED <<idsToBatch, calls, error>>
              ELSE /\ pc' = "awaiting"
                   /\ idsToBatch' = st.map
                   /\ calls' = Append(calls,
                                 [i \in 1..Len(st.map) |->
                                    [id |-> st.map[i].id,
                                     typename |-> st.map[i].typename]])
                   /\ UNCHANGED <<returned, error>>
    /\ UNCHANGED <<input0, options, settled, batchedIds, writes, twoCalls>>

\* batchIds resolves with an array: lines 331-387
BatchIdsResolves ==
    /\ pc = "awaiting"
    /\ \E res \in ResultArrays(Len(idsToBatch)) :
         /\ batchedIds' = res
         /\ settled' = "resolved"
         /\ IF LengthMismatch(res, idsToBatch)
            THEN /\ pc' = "rejected"
                 /\ error' = BatchIdsMismatchError(Len(idsToBatch), Len(res))
                 /\ UNCHANGED <<heap, writes, returned>>
            ELSE \E st \in {Scatter(heap[fullJson], idsToBatch, res,
                                     options.originalIdPrefix)} :
                     /\ heap' = [heap EXCEPT ![fullJson] = st.doc]
                     /\ writes' = st.writes
                     /\ IF st.err.name # "none"
                        THEN /\ pc' = "rejected"
                             /\ error' = st.err
                             /\ UNCHANGED returned
                        ELSE /\ pc' = "resolved"
                             /\ returned' = fullJson
                             /\ UNCHANGED error
    /\ UNCHANGED <<input0, options, fullJson, idsToBatch, parentCache, evaluated,
                   collected, calls, caught, twoCalls>>

\* batchIds throws or rejects: lines 324-329
BatchIdsFails ==
    /\ pc = "awaiting"
    /\ \E thrown \in Thrown :
         /\ pc' = "rejected"
         /\ settled' = "rejected"
         /\ caught' = thrown
         /\ error' = BatchIdsError(CauseOf(thrown))
    /\ UNCHANGED <<heap, input0, options, fullJson, idsToBatch, parentCache,
                   evaluated, collected, calls, batchedIds, writes, returned,
                   twoCalls>>

\* batchIds resolves with undefined: the read of batchedIds.length at line
\* 332, outside the try block of lines 319-329, throws a TypeError
BatchIdsResolvesUndefined ==
    /\ pc = "awaiting"
    /\ pc' = "rejected"
    /\ settled' = "resolvedUndefined"
    /\ error' = TypeError
    /\ UNCHANGED <<heap, input0, options, fullJson, idsToBatch, parentCache,
                   evaluated, collected, calls, batchedIds, caught, writes,
                   returned, twoCalls>>

Next == Call \/ BatchIdsResolves \/ BatchIdsResolvesUndefined \/ BatchIdsFails

Spec == Init /\ [][Next]_vars

(***************************************************************************)
(* Two calls in flight.  Each call has its own idsBatchMap, parentCache     *)
(* and fullJson (lines 168-182 are local to the function); the objects are  *)
(* shared.  Call c reads its input from the reference call[c].input and     *)
(* clones into CloneOf(c).                                                  *)
(***************************************************************************)
Callers == {1, 2}

\* one copy handed to both calls
CloneOfShared(c) == 3

\* the reference structuredClone gives to call c
CloneOf(c) == 2 + c

TwoDocuments ==
    { Obj([a |-> Obj([id |-> Str("12")]), b |-> Obj([id |-> Num(12)])]),
      Obj([a |-> Obj(("id" :> Num(12)) @@ ("@id" :> Str("9:12"))),
           b |-> Obj([id |-> Str("2")])]) }

TwoPathTypeMaps ==
    { <<[path |-> "$.*.id", rule |-> "User"]>>,
      <<[path |-> "$.a.id", rule |-> "fn"], [path |-> "$.b.id", rule |-> "Post"]>> }

\* what the batchIds of call c may resolve with for n entries: its own
\* mapped string or null for each entry, or an empty array
TwoResultArrays(c, n) ==
    [1..n -> {Null, IF c = 1 THEN Str("X") ELSE Str("Y")}] \cup {<<>>}

InitTwo ==
    /\ heap = <<>>
    /\ input0 = Null
    /\ options = <<>>
    /\ pc = "none"
    /\ fullJson = 0
    /\ idsToBatch = <<>>
    /\ parentCache = <<>>
    /\ evaluated = <<>>
    /\ collected = 0
    /\ calls = <<>>
    /\ settled = "no"
    /\ batchedIds = <<>>
    /\ caught = NoThrow
    /\ writes = <<>>
    /\ returned = 0
    /\ error = NoError
    /\ \E d1, d2 \in TwoDocuments :
       \E second \in Callers :
       \E opts \in [Callers -> [pathTypeMap : TwoPathTypeMaps,
                                originalIdPrefix : {Undefined},
                                mutate : {False, True}]] :
          twoCalls =
            [heap0 |-> (1 :> d1) @@ (2 :> d2),
             heap |-> (1 :> d1) @@ (2 :> d2),
             interleaved |-> FALSE,
             call |-> [c \in Callers |->
                        [pc |-> "idle",
                         input |-> IF c = 1 THEN 1 ELSE second,
                         options |-> opts[c],
                         fullJson |-> 0,
                         idsToBatch |-> <<>>,
                         parentCache |-> <<>>,
                         batchedIds |-> <<>>,
                         returned |-> 0,
                         error |-> NoError]]]

\* call c up to its await: lines 167-323; interleaved records that it
\* started while the other call was suspended at its await
TwoCallStarts(c) ==
    /\ twoCalls.call[c].pc = "idle"
    /\ LET me == twoCalls.call[c]
           ref == IF WorkingRef(me.options.mutate) = InputRef
                  THEN me.input ELSE CloneOf(c)
           heap1 == IF ref = me.input THEN twoCalls.heap
                    ELSE (ref :> twoCalls.heap[me.input]) @@ twoCalls.heap
       IN  \E st \in {Collect(heap1[ref], me.options.pathTypeMap)} :
             twoCalls' =
               [twoCalls EXCEPT
                  !.heap = heap1,
                  !.interleaved = @ \/ \E d \in Callers :
                                          twoCalls.call[d].pc = "awaiting",
                  !.call[c] =
                     [me EXCEPT
                        !.fullJson = ref,
                        !.parentCache = st.cache,
                        !.error = st.err,
                        !.pc = IF st.err.name # "none" THEN "rejected"
                               ELSE IF NothingToBatch(st.map) THEN "resolved"
                               ELSE "awaiting",
                        !.returned = IF st.err.name = "none" /\ NothingToBatch(st.map)
                                     THEN ref ELSE 0,
                        !.idsToBatch = IF st.err.name = "none" THEN st.map ELSE <<>>]]
    /\ UNCHANGED oneVars

\* the batchIds of call c resolves with an array: lines 331-387
TwoBatchIdsResolves(c) ==
    /\ twoCalls.call[c].pc = "awaiting"
    /\ LET me == twoCalls.call[c]
       IN  \E res \in TwoResultArrays(c, Len(me.idsToBatch)) :
             IF LengthMismatch(res, me.idsToBatch)
             THEN twoCalls' =
                    [twoCalls EXCEPT
                       !.call[c] =
                          [me EXCEPT
                             !.pc = "rejected",
                             !.batchedIds = res,
                             !.error = BatchIdsMismatchError(Len(me.idsToBatch),
                                                             Len(res))]]
             ELSE \E st \in {Scatter(twoCalls.heap[me.fullJson], me.idsToBatch, res,
                                      me.options.originalIdPrefix)} :
                    twoCalls' =
                      [twoCalls EXCEPT
                         !.heap[me.fullJson] = st.doc,
                         !.call[c] =
                            [me EXCEPT
                               !.batchedIds = res,
                               !.error = st.err,
                               !.pc = IF st.err.name # "none" THEN "rejected"
                                      ELSE "resolved",
                               !.returned = IF st.err.name # "none" THEN 0
                                            ELSE me.fullJson]]
    /\ UNCHANGED oneVars

\* the batchIds of call c throws or rejects: lines 324-329
TwoBatchIdsFails(c) ==
    /\ twoCalls.call[c].pc = "awaiting"
    /\ \E thrown \in Thrown :
         twoCalls' = [twoCalls EXCEPT
                        !.call[c].pc = "rejected",
                        !.call[c].error = BatchIdsError(CauseOf(thrown))]
    /\ UNCHANGED oneVars

NextTwo ==
    \E c \in Callers :
        TwoCallStarts(c) \/ TwoBatchIdsResolves(c) \/ TwoBatchIdsFails(c)

SpecTwo == InitTwo /\ [][NextTwo]_vars

(***************************************************************************)
(* Vocabulary of the properties.                                            *)
(***************************************************************************)
\* the value a document holds at a pointer, Undefined where it holds none
ValueAt(doc, pointer) ==
    LET got == get(doc, pointer) IN IF got.ok THEN got.v ELSE Undefined

\* the pointer of the sibling key of an identifier location
SiblingOf(pointer) ==
    LET tokens == parse(pointer)
    IN  compile(Append(SubSeq(tokens, 1, Len(tokens) - 1),
                       PrefixOf(options.originalIdPrefix) \o tokens[Len(tokens)]))

Nullish(v) == v.t = "null" \/ v.t = "undefined"

\* the call resolved after batchIds resolved with an array of the right length
Rewritten == pc = "resolved" /\ settled = "resolved"

\* the document the call resolved with
Output == heap[returned]

\* the number a string of decimal digits denotes, -1 when it is no such string
RECURSIVE DecimalValue(_, _)
DecimalValue(str, acc) ==
    IF Len(str) = 0 THEN acc
    ELSE LET d == { k \in 0..9 : Digits[k + 1] = SubSeq(str, 1, 1) }
         IN  IF d = {} THEN -1
             ELSE DecimalValue(SubSeq(str, 2, Len(str)),
                               10 * acc + (CHOOSE k \in d : TRUE))

\* str is the canonical decimal form of the natural number n
IsDecimalOf(str, n) ==
    /\ Len(str) > 0
    /\ (Len(str) > 1 => SubSeq(str, 1, 1) # "0")
    /\ DecimalValue(str, 0) = n

(***************************************************************************)
(* C1: the entry list handed to batchIds in one call holds no two entries   *)
(* with the same (typename, id) pair, however many locations or path        *)
(* patterns reference the pair.                                             *)
(***************************************************************************)
C1_NoDuplicateEntries ==
    \A c \in 1..Len(calls) :
        \A i, j \in 1..Len(calls[c]) : i # j => calls[c][i] # calls[c][j]

\* one pair seen at two locations and through two path patterns
C1_Witness ==
    /\ pc = "awaiting"
    /\ Len(options.pathTypeMap) = 2
    /\ \E i \in 1..Len(idsToBatch) :
          /\ Len(idsToBatch[i].pointers) >= 3
          /\ \E k, l \in 1..Len(idsToBatch[i].pointers) :
                idsToBatch[i].pointers[k] # idsToBatch[i].pointers[l]

(***************************************************************************)
(* C2 (as stated): after a successful call every location that referenced  *)
(* a pair whose positional result is a string holds that string.            *)
(***************************************************************************)
C2_MappedAtEveryLocation ==
    Rewritten =>
        \A i \in 1..Len(idsToBatch) :
            batchedIds[i].t = "string" =>
                \A k \in 1..Len(idsToBatch[i].pointers) :
                    ValueAt(Output, idsToBatch[i].pointers[k]) = batchedIds[i]

(***************************************************************************)
(* C3 (as stated): results are applied by index, and exchanging two         *)
(* elements of the array batchIds resolved with changes, in the output      *)
(* document, exactly the identifiers of the two entries at those indexes.   *)
(***************************************************************************)
Exchanged(results, i, j) ==
    [k \in 1..Len(results) |->
        IF k = i THEN results[j] ELSE IF k = j THEN results[i] ELSE results[k]]

C3_OrderAlignment ==
    Rewritten =>
        /\ \A w \in 1..Len(writes) :
              writes[w].kind = "id" => writes[w].value = batchedIds[writes[w].entry]
        /\ \A i, j \in 1..Len(idsToBatch) :
              (i < j /\ ~(Nullish(batchedIds[i]) /\ Nullish(batchedIds[j]))
                     /\ batchedIds[i] # batchedIds[j]) =>
                 LET again == Scatter(input0, idsToBatch,
                                      Exchanged(batchedIds, i, j),
                                      options.originalIdPrefix).doc
                 IN  \A e \in 1..Len(idsToBatch) :
                        \A k \in 1..Len(idsToBatch[e].pointers) :
                            LET p == idsToBatch[e].pointers[k]
                            IN  IF e \in {i, j}
                                THEN ValueAt(again, p) # ValueAt(Output, p)
                                ELSE ValueAt(again, p) = ValueAt(Output, p)

(***************************************************************************)
(* C4: batchIds is invoked at most once per call, exactly once when the     *)
(* collection succeeded with at least one identifier, and not again once    *)
(* it has thrown, rejected or resolved.                                     *)
(***************************************************************************)
\* the call rejected out of the collection phase
CollectionFailed == pc = "rejected" /\ settled = "no"

CollectedSome == collected > 0 /\ ~CollectionFailed

C4_InvokedOnce ==
    /\ Len(calls) <= 1
    /\ pc # "idle" => (Len(calls) = 1 <=> CollectedSome)
    /\ settled # "no" => Len(calls) = 1

\* batchIds resolved with an array of the wrong length and was not called again
C4_Witness ==
    /\ pc = "rejected"
    /\ settled = "resolved"
    /\ error.name = "BatchIdsMismatchError"
    /\ Len(calls) = 1

(***************************************************************************)
(* C5: when batchIds resolves with an array whose length differs from the   *)
(* number of entries, the call rejects with BatchIdsMismatchError carrying  *)
(* the entry count as expected and the array length as received, and no     *)
(* location of the working document has been written.                       *)
(***************************************************************************)
C5_MismatchRejects ==
    (settled = "resolved" /\ Len(batchedIds) # Len(calls[1])) =>
        /\ pc = "rejected"
        /\ returned = 0
        /\ error = BatchIdsMismatchError(Len(calls[1]), Len(batchedIds))
        /\ writes = <<>>
        /\ heap[fullJson] = input0

\* a result one longer than a list of two entries
C5_Witness ==
    /\ settled = "resolved"
    /\ Len(calls[1]) = 2
    /\ Len(batchedIds) = 3
    /\ error.name = "BatchIdsMismatchError"

(***************************************************************************)
(* C6 (as stated): when batchIds resolves with null or undefined at index   *)
(* i, every location that referenced the i-th entry holds in the output     *)
(* the value it held in the input, and no sibling field is added for it.    *)
(***************************************************************************)
C6_AbsentResultStability ==
    Rewritten =>
        \A i \in 1..Len(idsToBatch) :
            Nullish(batchedIds[i]) =>
                \A k \in 1..Len(idsToBatch[i].pointers) :
                    LET p == idsToBatch[i].pointers[k]
                    IN  /\ ValueAt(Output, p) = ValueAt(input0, p)
                        /\ ValueAt(Output, SiblingOf(p)) = ValueAt(input0, SiblingOf(p))

(***************************************************************************)
(* C7: with mutate false or unset the caller's input is deep-equal to its   *)
(* state before the call, in every state of the call and so after it        *)
(* resolved or rejected.                                                    *)
(***************************************************************************)
C7_CopyIsolation ==
    ~Truthy(options.mutate) => heap[InputRef] = input0

\* a call without mutate that resolved with a rewritten document
C7_Witness ==
    /\ ~Truthy(options.mutate)
    /\ Rewritten
    /\ writes # <<>>
    /\ Output # input0

(***************************************************************************)
(* C8: with mutate: true the call resolves with the input object itself,    *)
(* and every write of the scatter phase is visible on the input.            *)
(***************************************************************************)
C8_MutateAliasesInput ==
    (Truthy(options.mutate) /\ pc = "resolved") =>
        /\ returned = InputRef
        /\ fullJson = InputRef
        /\ \A w \in 1..Len(writes) :
              (\A x \in (w + 1)..Len(writes) : writes[x].pointer # writes[w].pointer)
                  => ValueAt(heap[InputRef], writes[w].pointer) = writes[w].value

\* a mutating call that rewrote an identifier and added a sibling field
C8_Witness ==
    /\ Truthy(options.mutate)
    /\ Rewritten
    /\ \E w \in 1..Len(writes) :
          /\ writes[w].kind = "original"
          /\ ValueAt(input0, writes[w].pointer) = Undefined
          /\ ValueAt(heap[InputRef], writes[w].pointer) # Undefined
    /\ heap[InputRef] # input0

(***************************************************************************)
(* C9: every entry handed to batchIds has a string id: the decimal form of  *)
(* the number when the document holds a number at the location the entry    *)
(* was made from (its first pointer), the unchanged string when it holds a  *)
(* string.                                                                  *)
(***************************************************************************)
C9_EntryIdsAreStrings ==
    \A c \in 1..Len(calls) :
        \A i \in 1..Len(calls[c]) :
            LET v == ValueAt(input0, idsToBatch[i].pointers[1])
            IN  /\ v.t \in {"string", "number"}
                /\ v.t = "string" => calls[c][i].id = v.s
                /\ v.t = "number" => IsDecimalOf(calls[c][i].id, v.n)

\* a number of two digits and a string, handed over in one call
C9_Witness ==
    /\ pc = "awaiting"
    /\ \E i, j \in 1..Len(idsToBatch) :
          /\ idsToBatch[i].originalId = Num(12)
          /\ calls[1][i].id = "12"
          /\ idsToBatch[j].originalId.t = "string"

(***************************************************************************)
(* C10 (as stated): an identifier field that holds a number in the input    *)
(* and whose entry gets a string holds that string in the output, and the   *)
(* sibling field holds the original number, as a number.                    *)
(***************************************************************************)
C10_NumericRoundTrip ==
    Rewritten =>
        \A i \in 1..Len(idsToBatch) :
            batchedIds[i].t = "string" =>
                \A k \in 1..Len(idsToBatch[i].pointers) :
                    LET p == idsToBatch[i].pointers[k]
                    IN  ValueAt(input0, p).t = "number" =>
                            /\ ValueAt(Output, p) = batchedIds[i]
                            /\ ValueAt(Output, SiblingOf(p)) = ValueAt(input0, p)

(***************************************************************************)
(* Vocabulary of the properties on object keys.                             *)
(***************************************************************************)
\* the top-level objects of a document of the model
TopKeys == {"a", "b"}

\* the locations of the entries that got a mapped value
MappedLocations ==
    UNION { { idsToBatch[i].pointers[k] : k \in 1..Len(idsToBatch[i].pointers) } :
            i \in { e \in 1..Len(idsToBatch) : ~Nullish(batchedIds[e]) } }

\* the names of the identifier fields of object o that got a mapped value
MappedFields(o) ==
    { parse(p)[2] : p \in { q \in MappedLocations :
                              Len(parse(q)) = 2 /\ parse(q)[1] = o } }

C12_OriginalPreserved ==
    Rewritten =>
        \A p \in MappedLocations :
            ValueAt(Output, SiblingOf(p)) = ValueAt(input0, p)

C14_SiblingKeyDistinct ==
    \A w \in 1..Len(writes) :
        writes[w].kind = "original" =>
            /\ w > 1
            /\ writes[w - 1].kind = "id"
            /\ writes[w].pointer # writes[w - 1].pointer

(***************************************************************************)
(* C15 (as stated): whatever the path evaluator, the type function and      *)
(* batchIds do, a call that rejects rejects with one of the five typed      *)
(* errors.                                                                  *)
(***************************************************************************)
TypedErrors ==
    {"InvalidJSONPathError", "PathTypeMapFnError", "BatchIdsError",
     "BatchIdsMismatchError", "InvalidJSONPointerError"}

C15_TypedRejections ==
    pc = "rejected" => error.name \in TypedErrors

MatchedValues(path) ==
    LET found == JSONPath(path, input0).pointers
    IN  { ValueAt(input0, found[i]) : i \in 1..Len(found) }

\* the rejection came out of the type function of the pattern evaluated last
TypeFnFailed ==
    /\ pc = "rejected"
    /\ error.name = "PathTypeMapFnError"

C18_PathFailureRejects ==
    (pc = "rejected" /\ error.name = "InvalidJSONPathError") =>
        /\ Len(evaluated) \in 1..Len(options.pathTypeMap)
        /\ \A k \in 1..Len(evaluated) : evaluated[k] = options.pathTypeMap[k].path
        /\ \A k \in 1..(Len(evaluated) - 1) : ~PathIsMalformed(evaluated[k])
        /\ error.path = evaluated[Len(evaluated)]
        /\ PathIsMalformed(error.path)
        /\ caught.isError
        /\ error.cause = caught.what
        /\ settled = "no"
        /\ calls = <<>>
        /\ writes = <<>>
        /\ returned = 0

\* the first of two patterns failed and the second was not evaluated
C18_Witness ==
    /\ pc = "rejected"
    /\ error.name = "InvalidJSONPathError"
    /\ Len(options.pathTypeMap) = 2
    /\ evaluated = <<"$.a[">>
    /\ options.pathTypeMap[2].path = "$.*.id"
    /\ error.cause = "Error: jsonPath: syntax error"

(***************************************************************************)
(* C19: when the collection ends without an identifier (no pattern, no      *)
(* match, or skipped values only), batchIds is not invoked, the call does   *)
(* not reject and it resolves with a document deep-equal to the input.      *)
(***************************************************************************)
C19_NothingCollectedResolves ==
    (pc # "idle" /\ collected = 0 /\ ~CollectionFailed) =>
        /\ pc = "resolved"
        /\ error = NoError
        /\ settled = "no"
        /\ calls = <<>>
        /\ writes = <<>>
        /\ Output = input0

\* two patterns were evaluated: one matched a null, the other nothing
C19_Witness ==
    /\ pc = "resolved"
    /\ collected = 0
    /\ Len(evaluated) = 2
    /\ input0.f["a"].f["id"] = Null
    /\ "@id" \notin DOMAIN input0.f["a"].f
    /\ \A k \in 1..2 : evaluated[k] \in {"$.a.id", "$.a['@id']"}

(***************************************************************************)
(* C20: with mutate false or unset, when batchIds resolves with null for    *)
(* every entry, the call resolves with a document deep-equal to the input.  *)
(***************************************************************************)
C20_AllNullIsIdentity ==
    (/\ Rewritten
     /\ ~Truthy(options.mutate)
     /\ \A i \in 1..Len(batchedIds) : batchedIds[i] = Null) =>
        /\ Output = input0
        /\ writes = <<>>
        /\ returned = CloneRef

\* two entries, both answered with null, in a call that works on a copy
C20_Witness ==
    /\ Rewritten
    /\ ~Truthy(options.mutate)
    /\ Len(idsToBatch) = 2
    /\ batchedIds = <<Null, Null>>
    /\ Output = input0

(***************************************************************************)
(* Vocabulary of the properties on sightings: the occurrences of valid      *)
(* identifiers in the input, pattern after pattern in pathTypeMap order     *)
(* and, within a pattern, in the evaluator's order.                         *)
(***************************************************************************)
\* the pointer of the parent of a location
ParentOf(pointer) ==
    LET tokens == parse(pointer) IN compile(SubSeq(tokens, 1, Len(tokens) - 1))

\* the typename a rule gives to the identifier at a location
TypenameAt(rule, path, idString, pointer) ==
    IF IsFunction(rule)
    THEN PathTypeMapFn(idString, ValueAt(input0, ParentOf(pointer)), path).typename
    ELSE rule

\* the locations a pattern matches in the input, in order, with their values
Matches(path) ==
    LET found == JSONPath(path, input0).pointers
    IN  [n \in 1..Len(found) |->
            [pointer |-> found[n], value |-> ValueAt(input0, found[n])]]

\* those that hold a string or a number
ValidMatches(path) ==
    SelectSeq(Matches(path), LAMBDA m : isValidIdType(m.value))

RECURSIVE SightingsFrom(_)
SightingsFrom(k) ==
    IF k > Len(options.pathTypeMap) THEN <<>>
    ELSE LET entry == options.pathTypeMap[k]
         IN  \* one evaluation of the matches of the pattern
             (CHOOSE here \in
                { [n \in 1..Len(found) |->
                     [pair |-> [id |-> IdString(found[n].value),
                                typename |-> TypenameAt(entry.rule, entry.path,
                                                        IdString(found[n].value),
                                                        found[n].pointer)],
                      pointer |-> found[n].pointer]] :
                  found \in {ValidMatches(entry.path)} } : TRUE)
             \o SightingsFrom(k + 1)

Sightings == SightingsFrom(1)

\* the position of the first sighting of a pair in a sequence of sightings,
\* 0 when it was never sighted
RECURSIVE FirstSight(_, _, _)
FirstSight(seen, pair, n) ==
    IF n > Len(seen) THEN 0
    ELSE IF seen[n].pair = pair THEN n
    ELSE FirstSight(seen, pair, n + 1)

\* the locations patterns match that hold neither a string nor a number
SkippedLocations ==
    UNION { { found[n].pointer :
                n \in { m \in 1..Len(found) : ~isValidIdType(found[m].value) } } :
            found \in { Matches(options.pathTypeMap[k].path) :
                          k \in 1..Len(options.pathTypeMap) } }

\* the locations the entries refer to
EntryLocations ==
    UNION { { idsToBatch[i].pointers[k] : k \in 1..Len(idsToBatch[i].pointers) } :
            i \in 1..Len(idsToBatch) }

(***************************************************************************)
(* C21 (as stated): a matched location that holds neither a string nor a    *)
(* number is skipped: no entry refers to it and, after a successful call,   *)
(* it holds the value it held in the input (an object is still an object).  *)
(***************************************************************************)
C21_SkippedSilently ==
    pc = "resolved" =>
        \A p \in SkippedLocations :
            /\ p \notin EntryLocations
            /\ ValueAt(Output, p).t = ValueAt(input0, p).t
            /\ ValueAt(input0, p).t # "object" =>
                   ValueAt(Output, p) = ValueAt(input0, p)

(***************************************************************************)
(* C22 (as stated): the document a call resolves with conforms to the       *)
(* declared type Transform: where pathTypeMap has the pattern "$.a.id" and  *)
(* the input holds a string or a number at a.id, the output holds a value   *)
(* of the declared type at a.id (string, or the input's type when the       *)
(* prefix is empty) and a value of the input's type at the prefixed key.    *)
(***************************************************************************)
\* the type Transform declares for the field of a simple-field path
TransformFieldType(prefix, inputType) ==
    IF prefix = "" THEN inputType ELSE "string"

C22_ConformsToTransform ==
    (/\ pc = "resolved"
     /\ \E k \in 1..Len(options.pathTypeMap) : options.pathTypeMap[k].path = "$.a.id"
     /\ isValidIdType(ValueAt(input0, "/a/id"))) =>
        /\ ValueAt(Output, "/a/id").t =
               TransformFieldType(PrefixOf(options.originalIdPrefix),
                                  ValueAt(input0, "/a/id").t)
        /\ ValueAt(Output, SiblingOf("/a/id")).t = ValueAt(input0, "/a/id").t

(***************************************************************************)
(* C23: the entries handed to batchIds are in first-sight order: every      *)
(* entry is a sighted pair, made from the location of its first sighting,   *)
(* and an entry comes before another exactly when its pair was sighted      *)
(* first; a repeated sighting adds no entry and moves none.                 *)
(***************************************************************************)
C23_FirstSightOrder ==
    \A c \in 1..Len(calls) :
        \A seen \in {Sightings} :
            \A first \in {[i \in 1..Len(calls[c]) |-> FirstSight(seen, calls[c][i], 1)]} :
                /\ \A i \in 1..Len(calls[c]) :
                      /\ first[i] > 0
                      /\ idsToBatch[i].pointers[1] = seen[first[i]].pointer
                /\ \A i, j \in 1..Len(calls[c]) : i < j => first[i] < first[j]

\* two entries; the pair of the first was sighted again by a second pattern
\* after the pair of the second had been sighted
C23_Witness ==
    /\ pc = "awaiting"
    /\ Len(evaluated) = 2
    /\ Len(idsToBatch) = 2
    /\ Len(idsToBatch[1].pointers) = 2
    /\ \E seen \in {Sightings} :
          /\ Len(seen) = 3
          /\ seen[3].pair = calls[1][1]
          /\ seen[2].pair = calls[1][2]

(***************************************************************************)
(* C24: the pipeline is strictly ordered: when batchIds is invoked every    *)
(* pattern of pathTypeMap has been evaluated and every matched identifier   *)
(* location belongs to an entry, and the working document is written only   *)
(* after batchIds has resolved with an array of the right length.           *)
(***************************************************************************)
C24_StrictPipeline ==
    /\ calls # <<>> =>
          /\ evaluated = [k \in 1..Len(options.pathTypeMap) |->
                             options.pathTypeMap[k].path]
          /\ Len(calls[1]) = collected
          /\ \E seen \in {Sightings} :
                EntryLocations = { seen[n].pointer : n \in 1..Len(seen) }
    /\ writes # <<>> =>
          /\ settled = "resolved"
          /\ Len(calls) = 1
          /\ Len(batchedIds) = Len(calls[1])
    /\ pc \in {"idle", "awaiting"} =>
          /\ writes = <<>>
          /\ \A r \in DOMAIN heap : heap[r] = input0

\* both patterns were evaluated before the one invocation, and the writes
\* came after its result
C24_Witness ==
    /\ Rewritten
    /\ Len(options.pathTypeMap) = 2
    /\ Len(evaluated) = 2
    /\ Len(calls[1]) = 2
    /\ Len(writes) >= 4

(***************************************************************************)
(* C25: two calls in flight                                                *)
(***************************************************************************)
\* the two calls share a document instance and one of them mutates in place
SharedUnderMutate ==
    /\ twoCalls.call[1].input = twoCalls.call[2].input
    /\ \E c \in Callers : Truthy(twoCalls.call[c].options.mutate)

\* the document call c resolves with when it runs alone on its input and
\* its batchIds gives the same answer
AloneDocument(c, alone) ==
    IF NothingToBatch(alone.map) THEN twoCalls.heap0[twoCalls.call[c].input]
    ELSE Scatter(twoCalls.heap0[twoCalls.call[c].input], alone.map,
                 twoCalls.call[c].batchedIds,
                 twoCalls.call[c].options.originalIdPrefix).doc

\* C25: two calls interleaved at their await that do not share a document
\* instance under mutate: true each behave as when run alone: the dedupe
\* map and the parent cache of a call hold what its own collection over its
\* own input produces, whatever the other call did, and a call that
\* resolves returns the document it returns when run alone with the same
\* batchIds answer; a call that copies works on a copy of its own
C25_CallsAreIsolated ==
    ~SharedUnderMutate =>
        \A c \in Callers :
            \E alone \in {Collect(twoCalls.heap0[twoCalls.call[c].input],
                                  twoCalls.call[c].options.pathTypeMap)} :
                /\ twoCalls.call[c].pc # "idle" =>
                      /\ twoCalls.call[c].parentCache = alone.cache
                      /\ alone.err.name = "none" =>
                            twoCalls.call[c].idsToBatch = alone.map
                      /\ alone.err.name # "none" =>
                            twoCalls.call[c].error = alone.err
                      /\ twoCalls.call[c].fullJson =
                            IF Truthy(twoCalls.call[c].options.mutate)
                            THEN twoCalls.call[c].input ELSE CloneOf(c)
                /\ twoCalls.call[c].pc = "resolved" =>
                      twoCalls.heap[twoCalls.call[c].returned] =
                          AloneDocument(c, alone)

\* both calls were in flight at once on the same instance, both resolved,
\* and each rewrote an identifier
C25_Witness ==
    /\ ~SharedUnderMutate
    /\ twoCalls.interleaved
    /\ twoCalls.call[1].input = twoCalls.call[2].input
    /\ \A c \in Callers :
          /\ twoCalls.call[c].pc = "resolved"
          /\ twoCalls.heap[twoCalls.call[c].returned]
                # twoCalls.heap0[twoCalls.call[c].input]

(***************************************************************************)
(* C26: what the deduplication collapses                                   *)
(***************************************************************************)
\* C26: two occurrences are collapsed into one entry only when both their
\* typename and their identifier string are equal: every location of an
\* entry was sighted with exactly the (id, typename) pair the entry was
\* handed to batchIds with
C26_CollapseOnlyEqualPairs ==
    calls # <<>> =>
        \A seen \in {Sightings} :
            \A i \in 1..Len(idsToBatch) :
                \A k \in 1..Len(idsToBatch[i].pointers) :
                    \E n \in 1..Len(seen) :
                        /\ seen[n].pointer = idsToBatch[i].pointers[k]
                        /\ seen[n].pair = calls[1][i]

(***************************************************************************)
(* C27: what a call leaves alone                                           *)
(***************************************************************************)
\* the sibling keys derived from the locations that got a mapped value
DerivedSiblings == { SiblingOf(p) : p \in MappedLocations }

\* C27: every location other than the identifier locations of the entries
\* with a non-null mapped value and the sibling keys derived from them holds
\* in the output the value it held in the input, and no key that existed in
\* the input and is not such an identifier location is overwritten
C27_OnlyIdsAndSiblingsChange ==
    pc = "resolved" =>
        \A o \in TopKeys :
            \A key \in DOMAIN Output.f[o].f \cup DOMAIN input0.f[o].f :
                \E p \in {compile(<<o, key>>)} :
                    /\ (p \notin MappedLocations /\ p \notin DerivedSiblings) =>
                          ValueAt(Output, p) = ValueAt(input0, p)
                    /\ (key \in DOMAIN input0.f[o].f /\ p \notin MappedLocations) =>
                          ValueAt(Output, p) = ValueAt(input0, p)

(***************************************************************************)
(* C28: the value written to the sibling key                               *)
(***************************************************************************)
\* C28: the value written to the sibling key of a rewritten identifier
\* location is exactly the value that same location held in the input,
\* with its original type, also when the same identifier occurs at another
\* location with the other type
C28_SiblingGetsOwnValue ==
    \A w \in 2..Len(writes) :
        writes[w].kind = "original" =>
            writes[w].value = ValueAt(input0, writes[w - 1].pointer)

(***************************************************************************)
(* C29: a rejected call under mutate: true                                 *)
(***************************************************************************)
\* the errors raised before the first write
EarlyErrors ==
    {"InvalidJSONPathError", "PathTypeMapFnError", "BatchIdsError",
     "BatchIdsMismatchError"}

\* C29: with mutate: true, a call that rejects with InvalidJSONPathError,
\* PathTypeMapFnError, BatchIdsError or BatchIdsMismatchError has written
\* nothing: the input object is deep-equal to what it was before the call
C29_RejectionLeavesInput ==
    (Truthy(options.mutate) /\ pc = "rejected" /\ error.name \in EarlyErrors) =>
        /\ heap[InputRef] = input0
        /\ writes = <<>>

\* a call on the input object itself collected identifiers and batchIds
\* resolved with an array of another length
C29_Witness ==
    /\ Truthy(options.mutate)
    /\ pc = "rejected"
    /\ error.name = "BatchIdsMismatchError"
    /\ fullJson = InputRef
    /\ collected > 0
    /\ \E i \in 1..Len(batchedIds) : ~Nullish(batchedIds[i])

(***************************************************************************)
(* C30: the empty string and the number 0                                  *)
(***************************************************************************)
\* the matches of the k-th pattern that hold "" or 0
FalsyMatches(k) ==
    SelectSeq(Matches(options.pathTypeMap[k].path),
              LAMBDA m : m.value = Str("") \/ m.value = Num(0))

\* C30: an identifier value that is the empty string or the number 0 is an
\* identifier like any other: once collection has succeeded its location
\* belongs to an entry whose id is "" or "0" and whose typename is the
\* pattern's, that entry is in the array batchIds was invoked with, and when
\* the call resolves and the entry's result is non-null the mapped value
\* was written to the location
C30_FalsyIdsAreIds ==
    (pc # "idle" /\ ~CollectionFailed) =>
        \A k \in 1..Len(options.pathTypeMap) :
            \A found \in {FalsyMatches(k)} :
                \A n \in 1..Len(found) :
                    \E i \in 1..Len(idsToBatch) :
                        /\ \E at \in 1..Len(idsToBatch[i].pointers) :
                              idsToBatch[i].pointers[at] = found[n].pointer
                        /\ Len(calls) = 1
                        /\ calls[1][i] =
                              [id |-> IF found[n].value = Num(0) THEN "0" ELSE "",
                               typename |->
                                  TypenameAt(options.pathTypeMap[k].rule,
                                             options.pathTypeMap[k].path,
                                             IdString(found[n].value),
                                             found[n].pointer)]
                        /\ (Rewritten /\ ~Nullish(batchedIds[i])) =>
                              \E w \in 1..Len(writes) :
                                  /\ writes[w].kind = "id"
                                  /\ writes[w].entry = i
                                  /\ writes[w].pointer = found[n].pointer
                                  /\ writes[w].value = batchedIds[i]

\* the number 0 at a.id and the string the call put in its place
C30_Witness ==
    /\ Rewritten
    /\ ValueAt(input0, "/a/id") = Num(0)
    /\ \E i \in 1..Len(idsToBatch) :
          /\ idsToBatch[i].id = "0"
          /\ batchedIds[i].t = "string"
          /\ ValueAt(Output, "/a/id") = batchedIds[i]
          /\ ValueAt(Output, SiblingOf("/a/id")) = Num(0)


====
